---- MODULE Spec2Model ----
(***************************************************************************)
(* Model of packages/core/src/is_cjk.rs: the CJK classifier is_cjk and the *)
(* two ways the repository uses it, a single call on one character and a   *)
(* filter of a text by is_cjk followed by a filter by its negation.        *)
(* Characters are modelled by their code points (u32::from(c)).            *)
(***************************************************************************)
EXTENDS Integers, Sequences, FiniteSets

VARIABLES c, result, called, pc, text, pos, cjk_chars, non_cjk_chars

vars == <<c, result, called, pc, text, pos, cjk_chars, non_cjk_chars>>

\* Longest text drawn from Alphabet (the two texts of the tests are longer
\* and always present).
MaxLen == 3

(***************************************************************************)
(* The classifier                                                          *)
(***************************************************************************)

\* The pattern arms of the matches! expression, in source order, each as
\* <<low, high>>; a single-value arm has low = high.  The table is written in
\* three pieces: the arms before, of, and after the group the doc comment
\* calls "漢文・囲み文字 (U+3190-U+3247)".
ArmsHead ==
  <<
      <<\H1100, \H11ff>>   \* Hangul Jamo
    , <<\H20a9, \H20a9>>   \* Won Sign (₩)
    , <<\H2329, \H232a>>   \* Left/Right-Pointing Angle Bracket
    , <<\H2630, \H2637>>   \* Trigrams for Divination
    , <<\H268a, \H268f>>   \* Digrams/Monograms
    , <<\H2e80, \H2e99>>   \* CJK Radicals Supplement (Part 1)
    , <<\H2e9b, \H2ef3>>   \* CJK Radicals Supplement (Part 2)
    , <<\H2f00, \H2fd5>>   \* Kangxi Radicals
    , <<\H2ff0, \H303e>>   \* Ideographic Description Characters + CJK Symbols and Punctuation
    , <<\H3041, \H3096>>   \* Hiragana
    , <<\H3099, \H30ff>>   \* Combining Marks + Katakana
    , <<\H3105, \H312f>>   \* Bopomofo
    , <<\H3131, \H318e>>   \* Hangul Compatibility Jamo
  >>

\* The doc comment's reading of the group: one range without gaps.
ArmsEnclosed_doc ==
  << <<\H3190, \H3247>> >>

\* The first arm of the group ending where the second begins.
ArmsEnclosed_overlap ==
  << <<\H3190, \H31ef>>, <<\H31ef, \H321e>>, <<\H3220, \H3247>> >>

ArmsEnclosed ==
  <<
      <<\H3190, \H31e5>>   \* Kanbun + CJK Strokes + Katakana Phonetic Extensions + Enclosed CJK Letters and Months (Part 1)
    , <<\H31ef, \H321e>>   \* Enclosed CJK Letters and Months (Part 2)
    , <<\H3220, \H3247>>   \* Enclosed CJK Letters and Months (Part 3)
  >>

ArmsTail ==
  <<
      <<\H3250, \Ha48c>>   \* CJK Compatibility + Yi Syllables + Yi Radicals
    , <<\Ha490, \Ha4c6>>   \* Yi Radicals
    , <<\Ha960, \Ha97c>>   \* Hangul Jamo Extended-A
    , <<\Hac00, \Hd7a3>>   \* Hangul Syllables
    , <<\Hd7b0, \Hd7c6>>   \* Hangul Jamo Extended-B
    , <<\Hd7cb, \Hd7fb>>   \* Hangul Jamo Extended-B (Part 2)
    , <<\Hf900, \Hfaff>>   \* CJK Compatibility Ideographs
    , <<\Hfe10, \Hfe19>>   \* Vertical Forms
    , <<\Hfe30, \Hfe52>>   \* CJK Compatibility Forms (Part 1)
    , <<\Hfe54, \Hfe66>>   \* CJK Compatibility Forms (Part 2)
    , <<\Hfe68, \Hfe6b>>   \* CJK Compatibility Forms (Part 3)
    , <<\Hff01, \Hffbe>>   \* Halfwidth and Fullwidth Forms (Part 1)
    , <<\Hffc2, \Hffc7>>   \* Halfwidth and Fullwidth Forms (Part 2)
    , <<\Hffca, \Hffcf>>   \* Halfwidth and Fullwidth Forms (Part 3)
    , <<\Hffd2, \Hffd7>>   \* Halfwidth and Fullwidth Forms (Part 4)
    , <<\Hffda, \Hffdc>>   \* Halfwidth and Fullwidth Forms (Part 5)
    , <<\Hffe0, \Hffe6>>   \* Halfwidth and Fullwidth Forms (Part 6)
    , <<\Hffe8, \Hffee>>   \* Halfwidth and Fullwidth Forms (Part 7)
    , <<\H16fe0, \H16fe4>>   \* Ideographic Symbols and Punctuation
    , <<\H16ff0, \H16ff6>>   \* Vietnamese Extensions
    , <<\H17000, \H18cd5>>   \* Tangut Ideographs + Tangut Components
    , <<\H18cff, \H18d1e>>   \* Tangut Supplement
    , <<\H18d80, \H18df2>>   \* Tangut Supplement (Part 2)
    , <<\H1aff0, \H1aff3>>   \* Kana Extended-B (Part 1)
    , <<\H1aff5, \H1affb>>   \* Kana Extended-B (Part 2)
    , <<\H1affd, \H1affe>>   \* Kana Extended-B (Part 3)
    , <<\H1b000, \H1b122>>   \* Kana Extended-A + Kana Supplement
    , <<\H1b132, \H1b132>>   \* Kana Supplement (Single)
    , <<\H1b150, \H1b152>>   \* Kana Supplement (Part 2)
    , <<\H1b155, \H1b155>>   \* Kana Supplement (Single)
    , <<\H1b164, \H1b167>>   \* Kana Supplement (Part 3)
    , <<\H1b170, \H1b2fb>>   \* Nushu
    , <<\H1d300, \H1d356>>   \* Tai Xuan Jing Symbols
    , <<\H1d360, \H1d376>>   \* Counting Rod Numerals
    , <<\H1f200, \H1f200>>   \* Enclosed Ideographic Supplement (Single)
    , <<\H1f202, \H1f202>>   \* Enclosed Ideographic Supplement (Single)
    , <<\H1f210, \H1f219>>   \* Enclosed Ideographic Supplement (Part 1)
    , <<\H1f21b, \H1f22e>>   \* Enclosed Ideographic Supplement (Part 2)
    , <<\H1f230, \H1f231>>   \* Enclosed Ideographic Supplement (Part 3)
    , <<\H1f237, \H1f237>>   \* Enclosed Ideographic Supplement (Single)
    , <<\H1f23b, \H1f23b>>   \* Enclosed Ideographic Supplement (Single)
    , <<\H1f240, \H1f248>>   \* Enclosed Ideographic Supplement (Part 4)
    , <<\H1f260, \H1f265>>   \* Enclosed Ideographic Supplement (Part 5)
    , <<\H20000, \H3fffd>>   \* CJK Unified Ideographs Extension B, C, D, E, F, G, H, I
  >>

Arms == ArmsHead \o ArmsEnclosed \o ArmsTail

\* `low..high` written for `low..=high`.
ArmMatches_exclusive(arm, v) == arm[1] <= v /\ v < arm[2]

\* `low..` written for `low..=high`.
ArmMatches_unbounded(arm, v) == arm[1] <= v

\* One arm `low..=high` matches v.
ArmMatches(arm, v) == arm[1] <= v /\ v <= arm[2]

\* A Rust char: a Unicode scalar value (no surrogate, at most 0x10FFFF).
IsChar(v) == v \in 0..\H10FFFF /\ ~(v \in \HD800..\HDFFF)

\* matches!(u32::from(c), arm | arm | ...)
is_cjk(v) == \E i \in DOMAIN Arms : ArmMatches(Arms[i], v)

(***************************************************************************)
(* Inputs                                                                  *)
(***************************************************************************)

\* The range table of the specification, section 4.1, row by row.
SpecTable ==
  <<
      <<\H1100, \H11FF>>   \* Hangul Jamo
    , <<\H20A9, \H20A9>>   \* Won Sign
    , <<\H2329, \H232A>>   \* Angle Brackets
    , <<\H2630, \H2637>>   \* Trigrams for Divination
    , <<\H268A, \H268F>>   \* Digrams/Monograms
    , <<\H2E80, \H2E99>>   \* CJK Radicals Supplement
    , <<\H2E9B, \H2EF3>>   \* CJK Radicals Supplement
    , <<\H2F00, \H2FD5>>   \* Kangxi Radicals
    , <<\H2FF0, \H303E>>   \* Ideographic Description Chars + CJK Punctuation
    , <<\H3041, \H3096>>   \* Hiragana
    , <<\H3099, \H30FF>>   \* Combining Marks + Katakana
    , <<\H3105, \H312F>>   \* Bopomofo
    , <<\H3131, \H318E>>   \* Hangul Compatibility Jamo
    , <<\H3190, \H31E5>>   \* Kanbun + Strokes + Phonetic Ext + Enclosed Letters pt1
    , <<\H31EF, \H321E>>   \* Enclosed Letters pt2
    , <<\H3220, \H3247>>   \* Enclosed Letters pt3
    , <<\H3250, \HA48C>>   \* CJK Compat + Yi Syllables/Radicals
    , <<\HA490, \HA4C6>>   \* Yi Radicals
    , <<\HA960, \HA97C>>   \* Hangul Jamo Ext-A
    , <<\HAC00, \HD7A3>>   \* Hangul Syllables
    , <<\HD7B0, \HD7C6>>   \* Hangul Jamo Ext-B pt1
    , <<\HD7CB, \HD7FB>>   \* Hangul Jamo Ext-B pt2
    , <<\HF900, \HFAFF>>   \* CJK Compatibility Ideographs
    , <<\HFE10, \HFE19>>   \* Vertical Forms
    , <<\HFE30, \HFE52>>   \* CJK Compatibility Forms pt1–3
    , <<\HFE54, \HFE66>>   \* CJK Compatibility Forms pt1–3
    , <<\HFE68, \HFE6B>>   \* CJK Compatibility Forms pt1–3
    , <<\HFF01, \HFFBE>>   \* Halfwidth/Fullwidth Forms pt1–7
    , <<\HFFC2, \HFFC7>>   \* Halfwidth/Fullwidth Forms pt1–7
    , <<\HFFCA, \HFFCF>>   \* Halfwidth/Fullwidth Forms pt1–7
    , <<\HFFD2, \HFFD7>>   \* Halfwidth/Fullwidth Forms pt1–7
    , <<\HFFDA, \HFFDC>>   \* Halfwidth/Fullwidth Forms pt1–7
    , <<\HFFE0, \HFFE6>>   \* Halfwidth/Fullwidth Forms pt1–7
    , <<\HFFE8, \HFFEE>>   \* Halfwidth/Fullwidth Forms pt1–7
    , <<\H16FE0, \H16FE4>>   \* Ideographic Symbols
    , <<\H16FF0, \H16FF6>>   \* Vietnamese Extensions
    , <<\H17000, \H18CD5>>   \* Tangut + Components
    , <<\H18CFF, \H18D1E>>   \* Tangut + Components
    , <<\H18D80, \H18DF2>>   \* Tangut + Components
    , <<\H1AFF0, \H1AFF3>>   \* Kana Ext-B pt1–3
    , <<\H1AFF5, \H1AFFB>>   \* Kana Ext-B pt1–3
    , <<\H1AFFD, \H1AFFE>>   \* Kana Ext-B pt1–3
    , <<\H1B000, \H1B122>>   \* Kana Ext-A + Kana Supplement
    , <<\H1B132, \H1B132>>   \* Kana Ext-A + Kana Supplement
    , <<\H1B150, \H1B152>>   \* Kana Ext-A + Kana Supplement
    , <<\H1B155, \H1B155>>   \* Kana Ext-A + Kana Supplement
    , <<\H1B164, \H1B167>>   \* Kana Ext-A + Kana Supplement
    , <<\H1B170, \H1B2FB>>   \* Nushu
    , <<\H1D300, \H1D356>>   \* Tai Xuan Jing Symbols
    , <<\H1D360, \H1D376>>   \* Counting Rod Numerals
    , <<\H1F200, \H1F200>>   \* Enclosed Ideographic Supplement
    , <<\H1F202, \H1F202>>   \* Enclosed Ideographic Supplement
    , <<\H1F210, \H1F219>>   \* Enclosed Ideographic Supplement
    , <<\H1F21B, \H1F22E>>   \* Enclosed Ideographic Supplement
    , <<\H1F230, \H1F231>>   \* Enclosed Ideographic Supplement
    , <<\H1F237, \H1F237>>   \* Enclosed Ideographic Supplement
    , <<\H1F23B, \H1F23B>>   \* Enclosed Ideographic Supplement
    , <<\H1F240, \H1F248>>   \* Enclosed Ideographic Supplement
    , <<\H1F260, \H1F265>>   \* Enclosed Ideographic Supplement
    , <<\H20000, \H3FFFD>>   \* CJK Unified Ideographs Ext B–I
  >>

InSpecTable(v) == \E i \in DOMAIN SpecTable : ArmMatches(SpecTable[i], v)

\* Every point where membership in a table can change: each low and each
\* high with both neighbours.
Boundaries(table) ==
  UNION { { table[i][1] - 1, table[i][1], table[i][2], table[i][2] + 1 } :
          i \in DOMAIN table }

\* The characters a single call is made on: every boundary of every arm and
\* of every row of the specification's table with both neighbours (between
\* two consecutive boundaries membership in either table cannot change), all
\* of ASCII, the fullwidth forms of printable ASCII, the two groups the doc
\* comment names as one range each, the ends of the char domain and of the
\* surrogate hole, and the characters the tests assert on.
Chars ==
  { v \in Boundaries(Arms) \cup Boundaries(SpecTable)
          \cup (\H00..\H7F) \cup (\HFF01..\HFF5E)
          \cup (\H3190..\H3247) \cup (\HD7B0..\HD7FF)
          \cup { \H0, \HE000, \H10FFFF, \H3FFFF, \H40000, \HE0000,
                 \H6F22, \H3042, \H30A2, \HAC00, \H20AC, \H20B9, \H2211,
                 \H3C0, \HE1, \HF1, \HFC, \H1F680, \H1D54F, \H3100,
                 \HABFF, \HD7A4, \H4E00, \H9FFF, \H2A6DF, \H2EBEF } :
    IsChar(v) }

\* "Hello世界こんにちは안녕하세요"
mixed_text ==
  << \H48, \H65, \H6C, \H6C, \H6F, \H4E16, \H754C, \H3053, \H3093, \H306B,
     \H3061, \H306F, \HC548, \HB155, \HD558, \HC138, \HC694 >>

\* "Hello世界₩1000！ㄱㄴㄷ〈test〉"
modern_text ==
  << \H48, \H65, \H6C, \H6C, \H6F, \H4E16, \H754C, \H20A9, \H31, \H30, \H30,
     \H30, \HFF01, \H3131, \H3134, \H3137, \H3008, \H74, \H65, \H73, \H74,
     \H3009 >>

\* 'a', '世', 'あ' and the unassigned U+321F: two CJK and two non-CJK
\* characters for the texts of bounded length.
Alphabet == { \H61, \H4E16, \H3042, \H321F }

Texts ==
  { mixed_text, modern_text }
    \cup UNION { [1..n -> Alphabet] : n \in 0..MaxLen }

(***************************************************************************)
(* State                                                                   *)
(*   c, result, called : argument and return value of the latest call of   *)
(*                       is_cjk; called is FALSE until the first return    *)
(*   pc                : "call"/"returned" for a single call,              *)
(*                       "filter_cjk"/"filter_non_cjk"/"done" for a filter *)
(*   text, pos         : the text being filtered and the iterator position *)
(*   cjk_chars, non_cjk_chars : the two collected vectors                  *)
(***************************************************************************)

TypeOK ==
  /\ c \in Chars \cup { text[i] : i \in DOMAIN text }
  /\ result \in BOOLEAN
  /\ called \in BOOLEAN
  /\ pc \in { "call", "returned", "filter_cjk", "filter_non_cjk", "done" }
  /\ text \in Texts \cup { <<>> }
  /\ pos \in 1..(Len(text) + 1)

\* A caller about to evaluate is_cjk(c) for one character c.
InitCall ==
  /\ c \in Chars
  /\ result = FALSE
  /\ called = FALSE
  /\ pc = "call"
  /\ text = <<>>
  /\ pos = 1
  /\ cjk_chars = <<>>
  /\ non_cjk_chars = <<>>

\* A caller about to filter a text, first by is_cjk, then by its negation.
InitFilter ==
  /\ text \in Texts
  /\ c = 0
  /\ result = FALSE
  /\ called = FALSE
  /\ pc = "filter_cjk"
  /\ pos = 1
  /\ cjk_chars = <<>>
  /\ non_cjk_chars = <<>>

Init == InitCall \/ InitFilter

\* is_cjk(c) evaluates the match and returns.
Call ==
  /\ pc = "call"
  /\ result' = is_cjk(c)
  /\ called' = TRUE
  /\ pc' = "returned"
  /\ UNCHANGED <<c, text, pos, cjk_chars, non_cjk_chars>>

\* One step of text.chars().filter(|&c| is_cjk(c)): the next character is
\* taken, is_cjk is called on it, and it is kept when the call returns true.
FilterCjk ==
  /\ pc = "filter_cjk"
  /\ pos <= Len(text)
  /\ c' = text[pos]
  /\ result' = is_cjk(text[pos])
  /\ called' = TRUE
  /\ cjk_chars' = IF is_cjk(text[pos]) THEN Append(cjk_chars, text[pos])
                                        ELSE cjk_chars
  /\ pos' = pos + 1
  /\ UNCHANGED <<pc, text, non_cjk_chars>>

\* .collect(): the iterator is exhausted, cjk_chars is complete, and the
\* second filter starts from the beginning of the text.
CollectCjk ==
  /\ pc = "filter_cjk"
  /\ pos > Len(text)
  /\ pc' = "filter_non_cjk"
  /\ pos' = 1
  /\ UNCHANGED <<c, result, called, text, cjk_chars, non_cjk_chars>>

\* The second filter with the negation dropped.
FilterNonCjk_same ==
  /\ pc = "filter_non_cjk"
  /\ pos <= Len(text)
  /\ c' = text[pos]
  /\ result' = is_cjk(text[pos])
  /\ called' = TRUE
  /\ non_cjk_chars' = IF is_cjk(text[pos])
                        THEN Append(non_cjk_chars, text[pos])
                        ELSE non_cjk_chars
  /\ pos' = pos + 1
  /\ UNCHANGED <<pc, text, cjk_chars>>

\* One step of text.chars().filter(|&c| !is_cjk(c)).
FilterNonCjk ==
  /\ pc = "filter_non_cjk"
  /\ pos <= Len(text)
  /\ c' = text[pos]
  /\ result' = is_cjk(text[pos])
  /\ called' = TRUE
  /\ non_cjk_chars' = IF ~is_cjk(text[pos])
                        THEN Append(non_cjk_chars, text[pos])
                        ELSE non_cjk_chars
  /\ pos' = pos + 1
  /\ UNCHANGED <<pc, text, cjk_chars>>

\* .collect() of the second filter.
CollectNonCjk ==
  /\ pc = "filter_non_cjk"
  /\ pos > Len(text)
  /\ pc' = "done"
  /\ UNCHANGED <<c, result, called, text, pos, cjk_chars, non_cjk_chars>>

Next ==
  \/ Call
  \/ FilterCjk
  \/ CollectCjk
  \/ FilterNonCjk
  \/ CollectNonCjk

Spec == Init /\ [][Next]_vars

(***************************************************************************)
(* Properties                                                              *)
(***************************************************************************)

\* C1: whenever is_cjk has returned for a code point c, the result is true
\* if and only if c lies in the union of the ranges of the specification's
\* table.  The calls cover every boundary of both tables with both
\* neighbours, so agreement there is agreement on all of 0..0x10FFFF.
C1_MatchesSpecTable ==
  called => (result <=> InSpecTable(c))

C1_Witness ==
  /\ called
  /\ pc = "returned"
  /\ c = \H1B132
  /\ result

\* Row i of the specification's table does not contain v, and neither does
\* any other row.
InNoOtherRow(i, v) ==
  \A j \in DOMAIN SpecTable : j # i => ~ArmMatches(SpecTable[j], v)

\* C2: for every listed range [low, high], is_cjk is true at low and at
\* high, false at low - 1 (when low > 0 and low - 1 is in no adjacent range)
\* and false at high + 1 (when high + 1 is in no adjacent range).
C2_BoundaryExactness ==
  called =>
    \A i \in DOMAIN SpecTable :
      LET low == SpecTable[i][1]
          high == SpecTable[i][2]
      IN  /\ c = low => result
          /\ c = high => result
          /\ (c = low - 1 /\ low > 0 /\ InNoOtherRow(i, low - 1)) => ~result
          /\ (c = high + 1 /\ InNoOtherRow(i, high + 1)) => ~result

C2_Witness ==
  /\ called
  /\ ~result
  /\ \E i \in DOMAIN SpecTable :
       c = SpecTable[i][2] + 1 /\ InNoOtherRow(i, c)
  /\ \E i \in DOMAIN SpecTable :
       c = SpecTable[i][1] - 1 /\ InNoOtherRow(i, c)

\* No arm reaches 0x3FFFE or beyond.
NoArmAbovePlane3 == \A i \in DOMAIN Arms : Arms[i][2] < \H3FFFE

\* C3: the gaps between the listed ranges are not CJK: 0x2E9A, 0x2EF4,
\* 0x321F, 0xFFC8, 0xFFC9, all of 0x31E6..0x31EE and everything from 0x3FFFE
\* upward are classified false, while 0x3FFFD is classified true.
C3_GapsAreNotCjk ==
  /\ NoArmAbovePlane3
  /\ called =>
       /\ c \in { \H2E9A, \H2EF4, \H321F, \HFFC8, \HFFC9 } => ~result
       /\ c \in \H31E6..\H31EE => ~result
       /\ c >= \H3FFFE => ~result
       /\ c = \H3FFFD => result

C3_Witness ==
  /\ called
  /\ ~result
  /\ c = \H3FFFE

\* The arms that match v.
MatchingArms(v) == { i \in DOMAIN Arms : ArmMatches(Arms[i], v) }

ArmsWellFormed ==
  /\ \A i \in DOMAIN Arms : Arms[i][1] <= Arms[i][2]
  /\ \A i, j \in DOMAIN Arms :
       i < j => /\ Arms[i][1] < Arms[j][1]
                /\ Arms[i][2] < Arms[j][1]

\* C4: the range table is well-formed: low <= high in every entry, the
\* entries are in strictly ascending order of low, and no two entries
\* overlap, so that no code point passed to is_cjk is matched by more than
\* one entry.
C4_TableWellFormed ==
  /\ ArmsWellFormed
  /\ called => (Cardinality(MatchingArms(c)) = IF result THEN 1 ELSE 0)

C4_Witness ==
  /\ called
  /\ result
  /\ \E i \in DOMAIN Arms : i > 1 /\ c = Arms[i][1]
  /\ Cardinality(MatchingArms(c)) = 1

\* No arm contains a surrogate or a value above 0x10FFFF.
ArmsWithinChar ==
  \A i \in DOMAIN Arms :
    \/ Arms[i][2] < \HD800
    \/ Arms[i][1] > \HDFFF /\ Arms[i][2] <= \H10FFFF

\* C5: every call returns a boolean, false for every value outside the
\* listed ranges; no arm contains a surrogate (0xD800..0xDFFF) or a value
\* above 0x10FFFF, so the match is false for every such 32-bit value.
C5_TotalAndFalseOutside ==
  /\ ArmsWithinChar
  /\ ~is_cjk(\HD800) /\ ~is_cjk(\HDFFF) /\ ~is_cjk(\H110000)
  /\ ~is_cjk(\H7FFFFFFF)
  /\ called => /\ result \in BOOLEAN
               /\ ~InSpecTable(c) => result = FALSE

C5_Witness ==
  /\ called
  /\ pc = "returned"
  /\ c = \H10FFFF
  /\ result = FALSE

\* t is an interleaving of a and b: every element of t goes to exactly one
\* of a and b, and both keep the order of t.
RECURSIVE IsMerge(_, _, _)
IsMerge(a, b, t) ==
  IF t = <<>>
    THEN a = <<>> /\ b = <<>>
    ELSE \/ a # <<>> /\ Head(a) = Head(t) /\ IsMerge(Tail(a), b, Tail(t))
         \/ b # <<>> /\ Head(b) = Head(t) /\ IsMerge(a, Tail(b), Tail(t))

\* ['世','界','こ','ん','に','ち','は','안','녕','하','세','요']
expected_cjk ==
  << \H4E16, \H754C, \H3053, \H3093, \H306B, \H3061, \H306F, \HC548, \HB155,
     \HD558, \HC138, \HC694 >>

\* ['H','e','l','l','o']
expected_non_cjk == << \H48, \H65, \H6C, \H6C, \H6F >>

\* C6: when both filters are done, cjk_chars and non_cjk_chars partition
\* the text: their lengths sum to the length of the text and the text is an
\* order-preserving interleaving of the two; for "Hello世界こんにちは안녕하세요"
\* they are exactly the twelve CJK characters and 'H','e','l','l','o'.
C6_FilterPartitions ==
  pc = "done" =>
    /\ Len(cjk_chars) + Len(non_cjk_chars) = Len(text)
    /\ IsMerge(cjk_chars, non_cjk_chars, text)
    /\ text = mixed_text => /\ cjk_chars = expected_cjk
                            /\ non_cjk_chars = expected_non_cjk

C6_Witness ==
  /\ pc = "done"
  /\ text = mixed_text
  /\ cjk_chars = expected_cjk
  /\ non_cjk_chars = expected_non_cjk

\* C7: every ASCII code point is non-CJK and the fullwidth form c + 0xFEE0
\* of every printable ASCII c in 0x21..0x7E is CJK; '$', '<' and U+20AC are
\* non-CJK while U+20A9, U+2329 and U+232A are CJK.
C7_AsciiVersusFullwidth ==
  called =>
    /\ c \in \H00..\H7F => ~result
    /\ (c - \HFEE0) \in \H21..\H7E => result
    /\ c \in { \H24, \H3C, \H20AC } => ~result
    /\ c \in { \H20A9, \H2329, \H232A } => result

C7_Witness ==
  /\ called
  /\ result
  /\ c = \H21 + \HFEE0

\* The two groups the doc comment gives as one range each.
DocRanges == (\H3190..\H3247) \cup (\HD7B0..\HD7FB)

\* The code points of those groups that no arm lists.
DocGaps == (\H31E6..\H31EE) \cup { \H321F } \cup (\HD7C7..\HD7CA)

ArmSize(arm) == arm[2] - arm[1] + 1

RECURSIVE SumSizes(_)
SumSizes(table) ==
  IF table = <<>> THEN 0 ELSE ArmSize(Head(table)) + SumSizes(Tail(table))

\* Number of code points is_cjk accepts (the arms being disjoint).
CjkCount == SumSizes(Arms)

\* The arm 0x20000..=0x3fffd, the last of the table.
ExtensionArm == Arms[Len(Arms)]

====
